---- MODULE Spec2Model ----
(***************************************************************************)
(* Model of Code/etl_process.py: the EcommerceETL driver (run_etl and the  *)
(* load / read / write helpers it calls) as a state machine, and the       *)
(* row-level transformations (transform_products' price extraction,        *)
(* transform_transactions, transform_discounts) as operators.              *)
(*                                                                         *)
(* The dataframe engine and the JDBC sink are collaborators: every call    *)
(* into them either returns or raises, and the model takes both outcomes.  *)
(***************************************************************************)
EXTENDS Integers, Sequences, FiniteSets, TLC

VARIABLES
    pc,         \* statement of run_etl about to execute, or idle / done
    run,        \* number of drivers constructed so far (process invocations)
    session,    \* self.spark: "none", "active" or "stopped"
    stops,      \* number of spark.stop() calls made by the current run
    exc,        \* exception in flight inside run_etl's try block, or NoExc
    readResult, \* read_from_transactions_df: "unset", "None" or "df"
    trace,      \* statements executed by the current run, with their outcome
    log,        \* lines the current run sent to the logger
    sink,       \* names of the tables that exist in the relational sink
    sink0,      \* the sink as it was before the first run
    sinkWritten,\* tables some run of the pipeline wrote successfully
    arg,        \* input of the transformation under check (row-level specs)
    res         \* its result, or Unset

vars == <<pc, run, session, stops, exc, readResult, trace, log, sink, sink0,
          sinkWritten, arg, res>>

MaxRuns == 2

\* A nullable value is the empty set (NULL / None) or a singleton.
Null == {}
Some(v) == {v}
Val(n) == CHOOSE v \in n : TRUE

Unset == [kind |-> "unset"]
NoExc == [type |-> "none", from |-> ""]

(***************************************************************************)
(* run_etl, statement by statement.                                        *)
(***************************************************************************)

TableOrder == <<"customers", "products", "transactions", "interactions",
                "discounts", "product_categories", "product_variants">>

Tables == {TableOrder[i] : i \in 1..Len(TableOrder)}

\* Mutant: the transactions and interactions writes exchanged.
ProgramWritesSwapped ==
    << <<"load_csv", "customers">>,
       <<"load_csv", "products">>,
       <<"load_csv", "transactions">>,
       <<"transform", "customers">>,
       <<"transform", "products">>,
       <<"transform", "transactions">>,
       <<"show", "customers">>,
       <<"show", "products">>,
       <<"show", "transactions">>,
       <<"transform", "interactions">>,
       <<"read_from_postgres", "transactions">>,
       <<"transform_discounts", "discounts">>,
       <<"transform", "product_categories">>,
       <<"transform", "product_variants">>,
       <<"write_to_postgres", "customers">>,
       <<"write_to_postgres", "products">>,
       <<"write_to_postgres", "interactions">>,
       <<"write_to_postgres", "transactions">>,
       <<"write_to_postgres", "discounts">>,
       <<"write_to_postgres", "product_categories">>,
       <<"write_to_postgres", "product_variants">>,
       <<"completed", "run_etl">> >>

\* Mutant: the sink read and the discount derivation moved behind the
\* write of the transactions table.
ProgramReadAfterWrite ==
    << <<"load_csv", "customers">>,
       <<"load_csv", "products">>,
       <<"load_csv", "transactions">>,
       <<"transform", "customers">>,
       <<"transform", "products">>,
       <<"transform", "transactions">>,
       <<"show", "customers">>,
       <<"show", "products">>,
       <<"show", "transactions">>,
       <<"transform", "interactions">>,
       <<"transform", "product_categories">>,
       <<"transform", "product_variants">>,
       <<"write_to_postgres", "customers">>,
       <<"write_to_postgres", "products">>,
       <<"write_to_postgres", "transactions">>,
       <<"read_from_postgres", "transactions">>,
       <<"transform_discounts", "discounts">>,
       <<"write_to_postgres", "interactions">>,
       <<"write_to_postgres", "discounts">>,
       <<"write_to_postgres", "product_categories">>,
       <<"write_to_postgres", "product_variants">>,
       <<"completed", "run_etl">> >>

\* The body of the try block, lines 183-211, in program order.
Program ==
    << <<"load_csv", "customers">>,
       <<"load_csv", "products">>,
       <<"load_csv", "transactions">>,
       <<"transform", "customers">>,
       <<"transform", "products">>,
       <<"transform", "transactions">>,
       <<"show", "customers">>,
       <<"show", "products">>,
       <<"show", "transactions">>,
       <<"transform", "interactions">>,
       <<"read_from_postgres", "transactions">>,
       <<"transform_discounts", "discounts">>,
       <<"transform", "product_categories">>,
       <<"transform", "product_variants">>,
       <<"write_to_postgres", "customers">>,
       <<"write_to_postgres", "products">>,
       <<"write_to_postgres", "transactions">>,
       <<"write_to_postgres", "interactions">>,
       <<"write_to_postgres", "discounts">>,
       <<"write_to_postgres", "product_categories">>,
       <<"write_to_postgres", "product_variants">>,
       <<"completed", "run_etl">> >>

IndexOf(stmt) == CHOOSE i \in 1..Len(Program) : Program[i] = stmt

\* The statement that follows stmt when stmt returns normally.
Succ(stmt) == Program[IndexOf(stmt) + 1]

AtStmt(kind) == /\ pc \in {Program[i] : i \in 1..Len(Program)}
                /\ pc[1] = kind

Executed(stmt, ok) == trace' = Append(trace, [stmt |-> stmt, ok |-> ok])

\* An exception leaves the try block for the except clause of line 213.
Raise(e) == /\ pc' = <<"except", "">>
            /\ exc' = e

\* __init__ and init_spark, lines 21-37: one driver per process invocation.
Construct(ok) ==
    /\ pc \in {<<"idle", "">>, <<"done", "">>}
    /\ run < MaxRuns
    /\ run' = run + 1
    /\ stops' = 0
    /\ exc' = NoExc
    /\ readResult' = "unset"
    /\ trace' = <<>>
    /\ IF ok
         THEN /\ session' = "active"
              /\ log' = << <<"INFO", "Spark Session initialized successfully", "">> >>
              /\ pc' = <<"start", "">>
         ELSE /\ session' = "none"
              /\ log' = << <<"ERROR", "Error initializing Spark", "">> >>
              /\ pc' = <<"idle", "">>
    /\ UNCHANGED <<sink, sink0, sinkWritten, arg, res>>

\* run_etl, line 180.
Start ==
    /\ pc = <<"start", "">>
    /\ log' = Append(log, <<"INFO", "Starting ETL Process...", "">>)
    /\ pc' = Program[1]
    /\ UNCHANGED <<run, session, stops, exc, readResult, trace, sink, sink0,
                   sinkWritten, arg, res>>

\* Mutant: load_csv logs the failure and returns instead of re-raising.
load_csv_swallow(ok) ==
    /\ AtStmt("load_csv")
    /\ Executed(pc, ok)
    /\ IF ok
         THEN log' = Append(log, <<"INFO", "Loaded CSV", pc[2]>>)
         ELSE log' = Append(log, <<"ERROR", "Error loading CSV", pc[2]>>)
    /\ pc' = Succ(pc)
    /\ UNCHANGED <<run, session, stops, exc, readResult, sink, sink0,
                   sinkWritten, arg, res>>

\* load_csv, lines 39-47: a failure is logged and re-raised.
load_csv(ok) ==
    /\ AtStmt("load_csv")
    /\ Executed(pc, ok)
    /\ IF ok
         THEN /\ log' = Append(log, <<"INFO", "Loaded CSV", pc[2]>>)
              /\ pc' = Succ(pc)
              /\ exc' = exc
         ELSE /\ log' = Append(log, <<"ERROR", "Error loading CSV", pc[2]>>)
              /\ Raise([type |-> "Exception", from |-> "load_csv"])
    /\ UNCHANGED <<run, session, stops, readResult, sink, sink0, sinkWritten,
                   arg, res>>

\* transform_customers / products / transactions / interactions /
\* product_categories / product_variants as called by run_etl: the engine
\* resolves the selected columns at the call and raises when one is missing.
transform(ok) ==
    /\ AtStmt("transform")
    /\ Executed(pc, ok)
    /\ IF ok
         THEN /\ pc' = Succ(pc)
              /\ exc' = exc
         ELSE Raise([type |-> "Exception", from |-> "transform"])
    /\ UNCHANGED <<run, session, stops, readResult, log, sink, sink0,
                   sinkWritten, arg, res>>

\* The three show(5) calls, lines 192-194: each evaluates its table.
show(ok) ==
    /\ AtStmt("show")
    /\ Executed(pc, ok)
    /\ IF ok
         THEN /\ pc' = Succ(pc)
              /\ exc' = exc
         ELSE Raise([type |-> "Exception", from |-> "show"])
    /\ UNCHANGED <<run, session, stops, readResult, log, sink, sink0,
                   sinkWritten, arg, res>>

\* Mutant: read_from_postgres logs the failure and re-raises it.
read_from_postgres_reraise(ok) ==
    /\ AtStmt("read_from_postgres")
    /\ ok => pc[2] \in sink
    /\ Executed(pc, ok)
    /\ IF ok
         THEN /\ log' = Append(log, <<"INFO", "Successfully read from PostgreSQL", pc[2]>>)
              /\ readResult' = "df"
              /\ pc' = Succ(pc)
              /\ exc' = exc
         ELSE /\ log' = Append(log, <<"ERROR", "Error reading from PostgreSQL", pc[2]>>)
              /\ readResult' = readResult
              /\ Raise([type |-> "Exception", from |-> "read_from_postgres"])
    /\ UNCHANGED <<run, session, stops, sink, sink0, sinkWritten, arg, res>>

\* read_from_postgres, lines 57-65: a failure is logged and None returned.
\* A table that does not exist in the sink cannot be read.
read_from_postgres(ok) ==
    /\ AtStmt("read_from_postgres")
    /\ ok => pc[2] \in sink
    /\ Executed(pc, ok)
    /\ IF ok
         THEN /\ log' = Append(log, <<"INFO", "Successfully read from PostgreSQL", pc[2]>>)
              /\ readResult' = "df"
         ELSE /\ log' = Append(log, <<"ERROR", "Error reading from PostgreSQL", pc[2]>>)
              /\ readResult' = "None"
    /\ pc' = Succ(pc)
    /\ UNCHANGED <<run, session, stops, exc, sink, sink0, sinkWritten, arg, res>>

\* transform_discounts as called at line 198, lines 130-142: ValueError on
\* None; otherwise the select may still raise on a missing column.
transform_discounts(ok) ==
    /\ AtStmt("transform_discounts")
    /\ IF readResult = "None"
         THEN /\ ~ok
              /\ Executed(pc, FALSE)
              /\ Raise([type |-> "ValueError", from |-> "transform_discounts"])
         ELSE /\ Executed(pc, ok)
              /\ IF ok
                   THEN /\ pc' = Succ(pc)
                        /\ exc' = exc
                   ELSE Raise([type |-> "Exception", from |-> "transform_discounts"])
    /\ UNCHANGED <<run, session, stops, readResult, log, sink, sink0,
                   sinkWritten, arg, res>>

\* Mutant: write_to_postgres logs the failure and re-raises it.
write_to_postgres_reraise(ok) ==
    /\ AtStmt("write_to_postgres")
    /\ Executed(pc, ok)
    /\ IF ok
         THEN /\ log' = Append(log, <<"INFO", "Successfully written to PostgreSQL", pc[2]>>)
              /\ sink' = sink \cup {pc[2]}
              /\ sinkWritten' = sinkWritten \cup {pc[2]}
              /\ pc' = Succ(pc)
              /\ exc' = exc
         ELSE /\ log' = Append(log, <<"ERROR", "Error writing to PostgreSQL", pc[2]>>)
              /\ UNCHANGED <<sink, sinkWritten>>
              /\ Raise([type |-> "Exception", from |-> "write_to_postgres"])
    /\ UNCHANGED <<run, session, stops, readResult, sink0, arg, res>>

\* write_to_postgres, lines 49-55: a failure is logged and swallowed.
write_to_postgres(ok) ==
    /\ AtStmt("write_to_postgres")
    /\ Executed(pc, ok)
    /\ IF ok
         THEN /\ log' = Append(log, <<"INFO", "Successfully written to PostgreSQL", pc[2]>>)
              /\ sink' = sink \cup {pc[2]}
              /\ sinkWritten' = sinkWritten \cup {pc[2]}
         ELSE /\ log' = Append(log, <<"ERROR", "Error writing to PostgreSQL", pc[2]>>)
              /\ UNCHANGED <<sink, sinkWritten>>
    /\ pc' = Succ(pc)
    /\ UNCHANGED <<run, session, stops, exc, readResult, sink0, arg, res>>

\* Line 211: the try block ends normally and control reaches finally.
Completed ==
    /\ AtStmt("completed")
    /\ log' = Append(log, <<"INFO", "ETL Process Completed Successfully", "">>)
    /\ pc' = <<"finally", "">>
    /\ UNCHANGED <<run, session, stops, exc, readResult, trace, sink, sink0,
                   sinkWritten, arg, res>>

\* Mutant: the handler returns from run_etl itself, with no finally clause.
ExceptHandlerNoFinally ==
    /\ pc = <<"except", "">>
    /\ log' = Append(log, <<"ERROR", "ETL Process Failed", exc.type>>)
    /\ exc' = NoExc
    /\ pc' = <<"done", "">>
    /\ UNCHANGED <<run, session, stops, readResult, trace, sink, sink0,
                   sinkWritten, arg, res>>

\* Lines 213-214: the top-level handler logs the exception and swallows it.
ExceptHandler ==
    /\ pc = <<"except", "">>
    /\ log' = Append(log, <<"ERROR", "ETL Process Failed", exc.type>>)
    /\ exc' = NoExc
    /\ pc' = <<"finally", "">>
    /\ UNCHANGED <<run, session, stops, readResult, trace, sink, sink0,
                   sinkWritten, arg, res>>

\* Lines 215-217: spark.stop(), then run_etl returns.
Finally ==
    /\ pc = <<"finally", "">>
    /\ session' = "stopped"
    /\ stops' = stops + 1
    /\ log' = Append(log, <<"INFO", "Spark Session Stopped", "">>)
    /\ pc' = <<"done", "">>
    /\ UNCHANGED <<run, exc, readResult, trace, sink, sink0, sinkWritten,
                   arg, res>>

\* Before the first run the sink holds any set of tables (created earlier
\* by hand or not at all); the pipeline has written none of them.
Init ==
    /\ pc = <<"idle", "">>
    /\ run = 0
    /\ session = "none"
    /\ stops = 0
    /\ exc = NoExc
    /\ readResult = "unset"
    /\ trace = <<>>
    /\ log = <<>>
    /\ sink \in {{}, {"transactions"}, Tables}
    /\ sink0 = sink
    /\ sinkWritten = {}
    /\ arg = Unset
    /\ res = Unset

Next ==
    \/ \E ok \in BOOLEAN : Construct(ok)
    \/ Start
    \/ \E ok \in BOOLEAN : load_csv(ok)
    \/ \E ok \in BOOLEAN : transform(ok)
    \/ \E ok \in BOOLEAN : show(ok)
    \/ \E ok \in BOOLEAN : read_from_postgres(ok)
    \/ \E ok \in BOOLEAN : transform_discounts(ok)
    \/ \E ok \in BOOLEAN : write_to_postgres(ok)
    \/ Completed
    \/ ExceptHandler
    \/ Finally

Spec == Init /\ [][Next]_vars

(***************************************************************************)
(* Properties of run_etl.                                                  *)
(***************************************************************************)

Idle == <<"idle", "">>
Done == <<"done", "">>
InExcept == <<"except", "">>
InFinally == <<"finally", "">>

Logged(line) == \E i \in 1..Len(log) : log[i] = line

IsWrite(e) == e.stmt[1] = "write_to_postgres"

\* Tables whose write the current run has attempted, in order of attempt.
RECURSIVE TablesOf(_)
TablesOf(t) == IF t = <<>> THEN <<>>
               ELSE <<Head(t).stmt[2]>> \o TablesOf(Tail(t))

Attempts == TablesOf(SelectSeq(trace, IsWrite))

IsPrefix(s, t) == /\ Len(s) <= Len(t)
                  /\ \A i \in 1..Len(s) : s[i] = t[i]

FailedAt(kind, i) == /\ i \in 1..Len(trace)
                     /\ trace[i].stmt[1] = kind
                     /\ ~trace[i].ok

SomeFailed(kind) == \E i \in 1..Len(trace) : FailedAt(kind, i)

\* C1: on every path through run_etl, whatever steps fail, spark.stop() has
\* been called exactly once when run_etl has returned, and never before the
\* finally clause nor a second time.
C1_SessionReleasedExactlyOnce ==
    /\ stops = IF pc = Done THEN 1 ELSE 0
    /\ pc = Done => session = "stopped"
    /\ pc \notin {Idle, Done} => session = "active"

C1_Witness ==
    /\ pc = Done
    /\ stops = 1
    /\ \E i \in 1..Len(trace) : ~trace[i].ok

\* C2: a failed table write is logged and swallowed; a run that attempted
\* the first write goes on to attempt all seven, whichever of them fail,
\* and ends through the normal exit of the try block.
C2_WriteFailuresIsolated ==
    /\ \A i \in 1..Len(trace) : FailedAt("write_to_postgres", i) =>
          /\ Logged(<<"ERROR", "Error writing to PostgreSQL", trace[i].stmt[2]>>)
          /\ pc # InExcept
          /\ exc = NoExc
          /\ ~Logged(<<"ERROR", "ETL Process Failed", "Exception">>)
    /\ (pc = Done /\ Attempts # <<>>) =>
          /\ Attempts = TableOrder
          /\ Logged(<<"INFO", "ETL Process Completed Successfully", "">>)

C2_Witness ==
    /\ pc = Done
    /\ Attempts = TableOrder
    /\ \E i, j \in 1..Len(trace) :
          /\ i < j
          /\ FailedAt("write_to_postgres", i)
          /\ trace[i].stmt[2] = "customers"
          /\ FailedAt("write_to_postgres", j)
          /\ trace[j].stmt[2] = "discounts"

\* C3: a failed load is logged, leaves load_csv as an exception, is caught
\* by the top-level handler, and is the last statement the run executes:
\* no transform, read or write follows it.
C3_LoadFailureAbortsRun ==
    \A i \in 1..Len(trace) : FailedAt("load_csv", i) =>
        /\ i = Len(trace)
        /\ \A j \in 1..Len(trace) : trace[j].stmt[1] = "load_csv"
        /\ Attempts = <<>>
        /\ Logged(<<"ERROR", "Error loading CSV", trace[i].stmt[2]>>)
        /\ pc \in {InExcept, InFinally, Done}
        /\ pc = InExcept => exc = [type |-> "Exception", from |-> "load_csv"]
        /\ pc \in {InFinally, Done} =>
              Logged(<<"ERROR", "ETL Process Failed", "Exception">>)

C3_Witness ==
    /\ pc = Done
    /\ FailedAt("load_csv", Len(trace))
    /\ trace[Len(trace)].stmt[2] = "transactions"

\* C4: a failed read of the transactions table returns None instead of
\* raising; the None makes transform_discounts raise ValueError, which the
\* top-level handler catches, and the session is stopped when the run ends.
C4_FailedReadYieldsNoneThenAborts ==
    \A i \in 1..Len(trace) : FailedAt("read_from_postgres", i) =>
        /\ readResult = "None"
        /\ Logged(<<"ERROR", "Error reading from PostgreSQL", "transactions">>)
        /\ Len(trace) = i =>
              /\ pc = <<"transform_discounts", "discounts">>
              /\ exc = NoExc
        /\ Len(trace) > i =>
              /\ Len(trace) = i + 1
              /\ trace[i + 1] = [stmt |-> <<"transform_discounts", "discounts">>,
                                 ok |-> FALSE]
              /\ pc \in {InExcept, InFinally, Done}
              /\ pc = InExcept =>
                    exc = [type |-> "ValueError", from |-> "transform_discounts"]
              /\ pc \in {InFinally, Done} =>
                    Logged(<<"ERROR", "ETL Process Failed", "ValueError">>)
        /\ pc = Done => (stops = 1 /\ session = "stopped")

C4_Witness ==
    /\ pc = Done
    /\ SomeFailed("read_from_postgres")
    /\ Logged(<<"ERROR", "ETL Process Failed", "ValueError">>)
    /\ session = "stopped"

\* C5: whenever the run has read the transactions table back from the sink,
\* it has already written the transactions table in the same run.
C5_ReadFollowsTransactionsWrite ==
    \A i \in 1..Len(trace) :
        trace[i].stmt = <<"read_from_postgres", "transactions">> =>
            \E j \in 1..(i - 1) :
                trace[j].stmt = <<"write_to_postgres", "transactions">>

\* C6: the writes are attempted one after another in the order customers,
\* products, transactions, interactions, discounts, product_categories,
\* product_variants, each once; a run that reaches the end of the try block
\* has attempted all seven.
C6_WritesInFixedOrder ==
    /\ IsPrefix(Attempts, TableOrder)
    /\ pc[1] = "write_to_postgres" => pc[2] = TableOrder[Len(Attempts) + 1]
    /\ pc = <<"completed", "run_etl">> => Attempts = TableOrder

C6_Witness ==
    /\ pc = <<"completed", "run_etl">>
    /\ Attempts = TableOrder
    /\ \A i \in 1..Len(trace) : trace[i].ok

\* C10: if the transactions table is not in the sink before the first run,
\* then after any number of runs the pipeline has written no table and the
\* sink is as it was.
C10_UnreadableSinkStaysEmpty ==
    "transactions" \notin sink0 => (sinkWritten = {} /\ sink = sink0)

C10_Witness ==
    /\ "transactions" \notin sink0
    /\ run >= 2
    /\ pc = Done
    /\ SomeFailed("read_from_postgres")

(***************************************************************************)
(* transform_products, line 92: the selling_price column.                  *)
(* A string is a sequence of one-character strings.                        *)
(***************************************************************************)

MaxLen == 6

Digits == {"0", "1", "2", "3", "4", "5", "6", "7", "8", "9"}

DigitVal(c) == CASE c = "0" -> 0 [] c = "1" -> 1 [] c = "2" -> 2
                 [] c = "3" -> 3 [] c = "4" -> 4 [] c = "5" -> 5
                 [] c = "6" -> 6 [] c = "7" -> 7 [] c = "8" -> 8
                 [] c = "9" -> 9

\* Characters of the price strings under check.
PriceAlphabet == {"$", "5", ",", ".", "x"}

\* Length of the longest prefix of s made of characters of cs.
RECURSIVE Span(_, _)
Span(s, cs) == IF s # <<>> /\ Head(s) \in cs THEN 1 + Span(Tail(s), cs) ELSE 0

Drop(s, n) == SubSeq(s, n + 1, Len(s))
Take(s, n) == SubSeq(s, 1, n)

\* Group 1 of \$([\d,]+\.?\d*) matched at the head of s, or Null: the
\* quantifiers are greedy and nothing after them can force a backtrack.
MatchAtHead(s) ==
    IF s = <<>> \/ Head(s) # "$" THEN Null
    ELSE LET r == Tail(s)
             n == Span(r, Digits \cup {","})
             dot == IF Drop(r, n) # <<>> /\ Head(Drop(r, n)) = "." THEN 1 ELSE 0
             f == Span(Drop(r, n + dot), Digits)
         IN IF n = 0 THEN Null ELSE Some(Take(r, n + dot + f))

\* regexp_extract(col, r"\$([\d,]+\.?\d*)", 1): group 1 of the leftmost
\* match, the empty string when the pattern occurs nowhere.
RECURSIVE regexp_extract(_)
regexp_extract(s) ==
    IF s = <<>> THEN <<>>
    ELSE IF MatchAtHead(s) # Null THEN Val(MatchAtHead(s))
    ELSE regexp_extract(Tail(s))

RECURSIVE DigitsValue(_)
DigitsValue(ds) == IF ds = <<>> THEN 0
                   ELSE 10 * DigitsValue(Take(ds, Len(ds) - 1)) + DigitVal(ds[Len(ds)])

\* cast(string as decimal(10,2)): the text must be a decimal numeral
\* (digits with at most one point, at least one digit); the value is
\* rounded half-up to two fraction digits; NULL when the text is not a
\* numeral or the integer part needs more than the eight digits that
\* decimal(10,2) leaves for it.
CastDecimal(s) ==
    LET n == Span(s, Digits)
        sig == n - Span(s, {"0"})
        dot == IF Drop(s, n) # <<>> /\ Head(Drop(s, n)) = "." THEN 1 ELSE 0
        frac == Drop(s, n + dot)
        f == Span(frac, Digits)
        d(i) == IF i <= f THEN DigitVal(frac[i]) ELSE 0
        cents == DigitsValue(Take(s, n)) * 100 + d(1) * 10 + d(2)
                    + (IF d(3) >= 5 THEN 1 ELSE 0)
    IN IF f # Len(frac) \/ n + f = 0 THEN Null
       ELSE IF sig > 8 THEN Null
       ELSE Some(cents)

\* s without the characters of cs.
RECURSIVE StripChars(_, _)
StripChars(s, cs) == IF s = <<>> THEN <<>>
                     ELSE IF Head(s) \in cs THEN StripChars(Tail(s), cs)
                     ELSE <<Head(s)>> \o StripChars(Tail(s), cs)

\* The selling_price expression of transform_products; a NULL input column
\* gives NULL.
selling_price(p) == IF p = Null THEN Null ELSE CastDecimal(regexp_extract(Val(p)))

RECURSIVE StringsOfLen(_, _)
StringsOfLen(cs, n) ==
    IF n = 0 THEN {<<>>}
    ELSE {<<c>> \o t : c \in cs, t \in StringsOfLen(cs, n - 1)}

StringsUpTo(cs, n) == UNION {StringsOfLen(cs, k) : k \in 0..n}

PipelineIdle ==
    /\ pc = <<"idle", "">>
    /\ run = 0
    /\ session = "none"
    /\ stops = 0
    /\ exc = NoExc
    /\ readResult = "unset"
    /\ trace = <<>>
    /\ log = <<>>
    /\ sink = {}
    /\ sink0 = {}
    /\ sinkWritten = {}

pipeVars == <<pc, run, session, stops, exc, readResult, trace, log, sink,
              sink0, sinkWritten>>

InitPrice ==
    /\ PipelineIdle
    /\ arg \in {[kind |-> "price", text |-> Some(s)] : s \in StringsUpTo(PriceAlphabet, MaxLen)}
                \cup {[kind |-> "price", text |-> Null]}
    /\ res = Unset

ApplySellingPrice ==
    /\ arg.kind = "price"
    /\ res = Unset
    /\ res' = [kind |-> "decimal", cents |-> selling_price(arg.text)]
    /\ UNCHANGED <<arg, pipeVars>>

SpecPrice == InitPrice /\ [][ApplySellingPrice]_vars

\* The whole string has the form $<digits>[,digits]*[.digits].
RECURSIVE IsGroups(_)
IsGroups(s) ==
    LET n == Span(s, Digits)
        r == Drop(s, n)
    IN /\ n > 0
       /\ \/ r = <<>>
          \/ Head(r) = "," /\ IsGroups(Tail(r))
          \/ /\ Head(r) = "."
             /\ Len(r) > 1
             /\ Span(Tail(r), Digits) = Len(r) - 1

MatchesPriceForm(s) == s # <<>> /\ Head(s) = "$" /\ IsGroups(Tail(s))

\* The pattern of line 92 occurs somewhere in the string.
RECURSIVE PatternOccurs(_)
PatternOccurs(s) == s # <<>> /\ (MatchAtHead(s) # Null \/ PatternOccurs(Tail(s)))

\* C8: for every price string of the form $<digits>[,digits]*[.digits] the
\* extracted selling_price is the number written by the string once "$" and
\* the "," separators are removed (at the column's two fraction digits), and
\* for every string in which the pattern does not occur it is NULL.
C8_PriceEqualsStrippedString ==
    (res.kind = "decimal" /\ arg.text # Null) =>
        LET s == Val(arg.text)
        IN /\ MatchesPriceForm(s) =>
                res.cents = CastDecimal(StripChars(s, {"$", ","}))
           /\ ~PatternOccurs(s) => res.cents = Null

(***************************************************************************)
(* Tables: a sequence of rows, a row a record of nullable values.          *)
(***************************************************************************)

Table(rows) == [kind |-> "table", rows |-> rows]
Raised(type) == [kind |-> "raise", type |-> type]

SeqsUpTo(S, n) == StringsUpTo(S, n)

RECURSIVE MapSeq(_, _)
MapSeq(F(_), t) == IF t = <<>> THEN <<>> ELSE <<F(Head(t))>> \o MapSeq(F, Tail(t))

RECURSIVE FlatMapSeq(_, _)
FlatMapSeq(F(_), t) == IF t = <<>> THEN <<>> ELSE F(Head(t)) \o FlatMapSeq(F, Tail(t))

\* cast(... as decimal(5,2)) of a numeric value held in hundredths: NULL
\* when the value needs more than three integer digits.
CastDecimal52(v) == IF v = Null THEN Null
                    ELSE IF Val(v) >= 100000 \/ Val(v) <= -100000 THEN Null
                    ELSE v

(***************************************************************************)
(* transform_discounts, lines 130-142.                                     *)
(***************************************************************************)

MaxDiscountRows == 2

DiscountColumns == {"transaction_id", "promo_code_used", "discount_applied",
                    "customer_id", "product_id", "purchase_date"}

\* Lines 135-141: the selected columns, discount_applied cast to
\* decimal(5,2); the other casts are to the type the sink already gives.
DiscountSelect(r) ==
    [c \in DiscountColumns |->
        IF c = "discount_applied" THEN CastDecimal52(r[c]) ELSE r[c]]

\* Mutant: the select without the where clause of line 142.
WherePromoAny(r) == TRUE

\* Line 142: where(col("promo_code_used").isNotNull()).
WherePromoNotNull(r) == r["promo_code_used"] # Null

\* df is Null (None) or Some([columns, rows]); a select of a column the
\* table does not have raises at the call.
TransformDiscounts(df) ==
    IF df = Null THEN Raised("ValueError")
    ELSE IF ~(DiscountColumns \subseteq Val(df).columns)
           THEN Raised("AnalysisException")
    ELSE Table(SelectSeq(MapSeq(DiscountSelect, Val(df).rows), WherePromoNotNull))

SinkColumns == DiscountColumns \cup {"payment_method"}

\* Rows of a transactions table as the sink returns it.
SinkRows(cols) ==
    {[c \in cols |->
        CASE c = "transaction_id" -> Some(tid)
          [] c = "promo_code_used" -> promo
          [] c = "discount_applied" -> Some(disc)
          [] c = "customer_id" -> Some(7)
          [] c = "product_id" -> Some("p1")
          [] c = "purchase_date" -> Some(<<2024, 2, 29, 9, 30>>)
          [] c = "payment_method" -> Some("Card")] :
        tid \in {1, 2}, promo \in {Null, Some(""), Some("SAVE10")},
        disc \in {1050, 100000}}

DiscountInputs(n) ==
    {Null} \cup
    {Some([columns |-> SinkColumns, rows |-> rows]) :
        rows \in SeqsUpTo(SinkRows(SinkColumns), n)}
    \cup
    {Some([columns |-> SinkColumns \ {"transaction_id"}, rows |-> rows]) :
        rows \in SeqsUpTo(SinkRows(SinkColumns \ {"transaction_id"}), n)}

InitDiscounts ==
    /\ PipelineIdle
    /\ arg \in {[kind |-> "discounts", df |-> d] : d \in DiscountInputs(MaxDiscountRows)}
    /\ res = Unset

ApplyTransformDiscounts ==
    /\ arg.kind = "discounts"
    /\ res = Unset
    /\ res' = TransformDiscounts(arg.df)
    /\ UNCHANGED <<arg, pipeVars>>

SpecDiscounts == InitDiscounts /\ [][ApplyTransformDiscounts]_vars

\* C9: transform_discounts raises ValueError on a None input; on a table
\* that has the selected columns it returns a table in which every row has
\* a non-null promo_code_used and in which every input row with a non-null
\* promo_code_used appears (with its selected columns).
C9_DiscountsPreconditionAndFilter ==
    res # Unset =>
        /\ arg.df = Null <=> res = Raised("ValueError")
        /\ (arg.df # Null /\ DiscountColumns \subseteq Val(arg.df).columns) =>
              /\ res.kind = "table"
              /\ \A k \in 1..Len(res.rows) : res.rows[k]["promo_code_used"] # Null
              /\ \A i \in 1..Len(Val(arg.df).rows) :
                    Val(arg.df).rows[i]["promo_code_used"] # Null =>
                        \E k \in 1..Len(res.rows) :
                            \A c \in DiscountColumns \ {"discount_applied"} :
                                res.rows[k][c] = Val(arg.df).rows[i][c]

C9_Witness ==
    /\ res.kind = "table"
    /\ Len(Val(arg.df).rows) = 2
    /\ Val(arg.df).rows[1]["promo_code_used"] = Null
    /\ Val(arg.df).rows[2]["promo_code_used"] = Some("")
    /\ Len(res.rows) = 1

(***************************************************************************)
(* transform_transactions, lines 99-119.                                   *)
(* The text of a "Time stamp" cell is either of the shape N/N/N N:N, held  *)
(* as its five numerals (each a sequence of digits), or some Other text.   *)
(***************************************************************************)

MaxTransactionRows == 2
MaxCustomerRows == 2

Other == <<>>

IsLeap(y) == (y % 4 = 0 /\ y % 100 # 0) \/ y % 400 = 0

DaysInMonth(m, y) == CASE m \in {4, 6, 9, 11} -> 30
                       [] m = 2 -> IF IsLeap(y) THEN 29 ELSE 28
                       [] OTHER -> 31

\* The five fields name a minute that exists in the calendar.
ValidFields(t) ==
    LET d == DigitsValue(t[1])
        m == DigitsValue(t[2])
        y == DigitsValue(t[3])
        h == DigitsValue(t[4])
        mi == DigitsValue(t[5])
    IN /\ m \in 1..12
       /\ y >= 1
       /\ d \in 1..DaysInMonth(m, y)
       /\ h \in 0..23
       /\ mi \in 0..59

\* The text parses under dd/MM/yyyy H:mm: two-digit day and month, a
\* four-digit year, an hour of one or more digits, a two-digit minute, and
\* fields that name an existing minute (the formatter resolves strictly).
ParsesPattern(t) ==
    /\ t # Other
    /\ Len(t[1]) = 2
    /\ Len(t[2]) = 2
    /\ Len(t[3]) = 4
    /\ Len(t[4]) >= 1
    /\ Len(t[5]) = 2
    /\ ValidFields(t)

\* to_timestamp(col("Time stamp"), "dd/MM/yyyy H:mm"): NULL for a NULL cell
\* and for a text that does not parse.
to_timestamp(cell) ==
    IF cell = Null \/ ~ParsesPattern(Val(cell)) THEN Null
    ELSE LET t == Val(cell)
         IN Some(<<DigitsValue(t[3]), DigitsValue(t[2]), DigitsValue(t[1]),
                   DigitsValue(t[4]), DigitsValue(t[5])>>)

\* A text the pattern rejects only for the width of a field: the engine's
\* parser policy decides between NULL and failing the evaluation.
WidthOnlyMismatch(cell) ==
    /\ cell # Null
    /\ Val(cell) # Other
    /\ ~ParsesPattern(Val(cell))
    /\ ValidFields(Val(cell))

\* Lines 102-107: withColumn, select, dropna(subset=["purchase_date"]).
TransactionSelect(r) ==
    [customer_id |-> r.user_id,
     product_id |-> r.product_id,
     purchase_date |-> to_timestamp(r.time_stamp)]

DropnaPurchaseDate(r) == r.purchase_date # Null

\* Lines 109-116: the customer columns the join brings in.
CustomerSelect(c) ==
    [customer_id |-> c.Customer_ID,
     purchase_amount_usd |-> c.Purchase_Amount_USD,
     shipping_type |-> c.Shipping_Type,
     discount_applied |-> CastDecimal52(c.Discount_Applied),
     promo_code_used |-> c.Promo_Code_Used,
     payment_method |-> c.Payment_Method]

Joined(t, c) ==
    [customer_id |-> t.customer_id,
     product_id |-> t.product_id,
     purchase_date |-> t.purchase_date,
     purchase_amount_usd |-> c.purchase_amount_usd,
     shipping_type |-> c.shipping_type,
     discount_applied |-> c.discount_applied,
     promo_code_used |-> c.promo_code_used,
     payment_method |-> c.payment_method]

NoCustomer == [customer_id |-> Null, purchase_amount_usd |-> Null,
               shipping_type |-> Null, discount_applied |-> Null,
               promo_code_used |-> Null, payment_method |-> Null]

\* The equi-join condition: NULL equals nothing.
KeyMatch(t, c) == t.customer_id # Null /\ t.customer_id = c.customer_id

\* Mutant: how="inner".
InnerJoin(left, right) ==
    LET RowsFor(t) ==
            LET Hit(c) == KeyMatch(t, c)
                Pair(c) == Joined(t, c)
            IN MapSeq(Pair, SelectSeq(right, Hit))
    IN FlatMapSeq(RowsFor, left)

\* Lines 108-119: join(on="customer_id", how="left").
LeftJoin(left, right) ==
    LET RowsFor(t) ==
            LET Hit(c) == KeyMatch(t, c)
                Pair(c) == Joined(t, c)
                hits == SelectSeq(right, Hit)
            IN IF hits = <<>> THEN <<Joined(t, NoCustomer)>>
               ELSE MapSeq(Pair, hits)
    IN FlatMapSeq(RowsFor, left)

transform_transactions(transactions_df, customers_df) ==
    LeftJoin(SelectSeq(MapSeq(TransactionSelect, transactions_df), DropnaPurchaseDate),
             MapSeq(CustomerSelect, customers_df))

\* What evaluating the table gives: the table, or a failure of the
\* evaluation when a text mismatches only in width.
TransformTransactionsOutcomes(transactions_df, customers_df) ==
    {Table(transform_transactions(transactions_df, customers_df))}
    \cup {Raised("SparkUpgradeException") : i \in
            {j \in 1..Len(transactions_df) : WidthOnlyMismatch(transactions_df[j].time_stamp)}}

TimestampCells ==
    {Null,
     Some(Other),
     Some(<< <<"2", "9">>, <<"0", "2">>, <<"2", "0", "2", "4">>, <<"9">>, <<"3", "0">> >>),
     Some(<< <<"3", "1">>, <<"0", "2">>, <<"2", "0", "2", "4">>, <<"1", "0">>, <<"0", "0">> >>),
     Some(<< <<"5">>, <<"1", "2">>, <<"2", "0", "2", "4">>, <<"9">>, <<"3", "0">> >>)}

TransactionRows ==
    {[user_id |-> u, product_id |-> Some("p1"), time_stamp |-> ts] :
        u \in {Null, Some(7), Some(8)}, ts \in TimestampCells}

CustomerRows ==
    {[Customer_ID |-> p[1], Purchase_Amount_USD |-> Some(5300),
      Shipping_Type |-> Some("Express"), Discount_Applied |-> Some(1050),
      Promo_Code_Used |-> p[2], Payment_Method |-> Some("Card")] :
        p \in {<<Some(7), Null>>, <<Some(7), Some("SAVE10")>>,
                <<Null, Some("SAVE10")>>}}

InitTransactions ==
    /\ PipelineIdle
    /\ arg \in {[kind |-> "transactions", transactions_df |-> t, customers_df |-> c] :
                  t \in SeqsUpTo(TransactionRows, MaxTransactionRows),
                  c \in SeqsUpTo(CustomerRows, MaxCustomerRows)}
    /\ res = Unset

ApplyTransformTransactions ==
    /\ arg.kind = "transactions"
    /\ res = Unset
    /\ res' \in TransformTransactionsOutcomes(arg.transactions_df, arg.customers_df)
    /\ UNCHANGED <<arg, pipeVars>>

SpecTransactions == InitTransactions /\ [][ApplyTransformTransactions]_vars

HasCustomer(id) ==
    \E j \in 1..Len(arg.customers_df) :
        id # Null /\ arg.customers_df[j].Customer_ID = id

MatchCount(id) ==
    Cardinality({j \in 1..Len(arg.customers_df) :
                    id # Null /\ arg.customers_df[j].Customer_ID = id})

\* Output rows that carry the selected columns of input row r.
RowsFrom(r) ==
    {k \in 1..Len(res.rows) :
        /\ res.rows[k].customer_id = r.user_id
        /\ res.rows[k].product_id = r.product_id
        /\ res.rows[k].purchase_date = to_timestamp(r.time_stamp)}

====
